---- MODULE Spec2Model ----
(***************************************************************************)
(* Model of the POS backend of new-mapp-main/backend/server.py.            *)
(*                                                                         *)
(* The three store collections (users, products, sales) are sequences in   *)
(* insertion order.  Every request handler is a process that advances one  *)
(* store operation at a time: an action is one awaited store call together *)
(* with the handler code that runs up to the next awaited call, so the     *)
(* interleavings of the model are those of concurrent requests on the      *)
(* event loop.                                                             *)
(***************************************************************************)
EXTENDS Integers, Sequences, FiniteSets, TLC

\* ------------------------------------------------------------------ bounds
MaxUsers == 4        \* user records ever stored
MaxProducts == 4     \* product ids ever allocated
MaxSales == 2        \* sale records ever stored
MaxTokens == 2       \* tokens handed out by login
ClockSlack == 2      \* clock ticks explored past the lifetime of a token
TicksPerSecond == 2  \* clock ticks in one second (the clock's resolution)

\* ------------------------------------------------------ program constants
ACCESS_TOKEN_EXPIRE_MINUTES == 60 * 24 * 7

TicksPerMinute == 60 * TicksPerSecond
TicksPerDay == 24 * 60 * TicksPerMinute
\* timedelta(minutes=ACCESS_TOKEN_EXPIRE_MINUTES), in ticks
TokenLifetime == ACCESS_TOKEN_EXPIRE_MINUTES * TicksPerMinute

\* the request handlers that may be in flight together
Procs == {"h1", "h2"}

VARIABLES
    users,      \* db.users: sequence of user documents
    products,   \* db.products: sequence of product documents
    sales,      \* db.sales: sequence of sale documents
    nextPid,    \* next unused product id (uuid4 values are fresh)
    now,        \* datetime.now(timezone.utc), in ticks
    issued,     \* tokens returned by login, with their issue tick
    pc,         \* per handler: the await it is suspended at
    req,        \* per handler: the request it serves
    caller,     \* per handler: current_user resolved by the gate
    loc,        \* per handler: local variables alive across awaits
    outcome,    \* per handler: status and detail of the last response
    resp,       \* per handler: body of the last response
    applied     \* history: per handler and product id, the change that the
                \* handler's current create_sale has made to times_sold

vars == <<users, products, sales, nextPid, now, issued,
          pc, req, caller, loc, outcome, resp, applied>>

store == <<users, products, sales>>

\* ------------------------------------------------------------ plain values
None == [none |-> TRUE]
NoReq == [op |-> "none"]

Ok == [status |-> 200, detail |-> ""]
EmailTaken == [status |-> 400, detail |-> "Email already registered"]
BadLogin == [status |-> 401, detail |-> "Incorrect email or password"]
NotAuthenticated == [status |-> 401, detail |-> "Not authenticated"]
BadCredentials == [status |-> 401, detail |-> "Could not validate credentials"]
AdminRequired == [status |-> 403, detail |-> "Admin access required"]
ProductNotFound == [status |-> 404, detail |-> "Product not found"]
ServerError == [status |-> 500, detail |-> "Internal Server Error"]
NoOutcome == [status |-> 0, detail |-> ""]

Min(S) == CHOOSE x \in S : \A y \in S : x <= y

\* find_one: the first document of the collection that matches, or None
FindOne(coll, Match(_)) ==
    LET hits == {i \in DOMAIN coll : Match(coll[i])}
    IN  IF hits = {} THEN None ELSE coll[Min(hits)]

\* ------------------------------------------------------- password hashing
Salts == {"s1"}

get_password_hash(password, salt) ==
    [salt |-> salt, digest |-> <<salt, password>>]

verify_password(plain_password, hashed_password) ==
    get_password_hash(plain_password, hashed_password.salt) = hashed_password

\* ------------------------------------------------------------------ tokens
\* jwt.encode turns the datetime exp into a NumericDate: whole seconds
NumericDate(ticks) == ticks \div TicksPerSecond

create_access_token(sub) ==
    [sub |-> sub,
     exp |-> NumericDate(now + TokenLifetime),
     sig |-> "good"]

NoToken == [sub |-> 0, exp |-> 0, sig |-> "missing"]

\* jwt.decode that never finds a token expired
jwt_decodeNoExpiry(token) ==
    IF token.sig # "good" THEN None ELSE [sub |-> token.sub]

\* jwt.decode that does not verify the signature
jwt_decodeNoSignature(token) ==
    IF token.exp < NumericDate(now) THEN None ELSE [sub |-> token.sub]

\* jwt.decode: the payload, or None for a JWTError (bad signature, expired)
jwt_decode(token) ==
    IF token.sig # "good" THEN None
    ELSE IF token.exp < NumericDate(now) THEN None
    ELSE [sub |-> token.sub]

\* get_current_user: [err, user]; a missing header is refused by oauth2_scheme
get_current_user(token) ==
    IF token.sig = "missing" THEN [err |-> NotAuthenticated, user |-> None]
    ELSE LET payload == jwt_decode(token)
         IN  IF payload = None THEN [err |-> BadCredentials, user |-> None]
             ELSE IF payload.sub = 0 THEN [err |-> BadCredentials, user |-> None]
             ELSE LET user == FindOne(users, LAMBDA u : u.id = payload.sub)
                  IN  IF user = None
                      THEN [err |-> BadCredentials, user |-> None]
                      ELSE [err |-> Ok, user |-> user]

\* the admin gate without its role test
get_admin_userAnyRole(token) == get_current_user(token)

get_admin_user(token) ==
    LET cur == get_current_user(token)
    IN  IF cur.err # Ok THEN cur
        ELSE IF cur.user.role # "admin"
             THEN [err |-> AdminRequired, user |-> None]
             ELSE cur

\* the public User view: the stored document without its password
PublicUser(u) ==
    [id |-> u.id, email |-> u.email, name |-> u.name, role |-> u.role,
     created_at |-> u.created_at]

\* ------------------------------------------------------------- seed data
\* the demo catalog of seed_data, cut to one product of two of its categories
DemoProducts ==
    << [name |-> "Iced Coffee", category |-> "cold_drinks", cost |-> 150,
        sale_price |-> 350, employee_price |-> 250, image_url |-> "img1"],
       [name |-> "Croissant", category |-> "snacks", cost |-> 120,
        sale_price |-> 300, employee_price |-> 200, image_url |-> "img2"] >>

\* ------------------------------------------------------- handler plumbing
Ready(p) == pc[p] \in {"idle", "done"}

\* a handler returns or raises: the response is recorded, the locals die
Respond(p, r, out, body) ==
    /\ pc' = [pc EXCEPT ![p] = "done"]
    /\ req' = [req EXCEPT ![p] = r]
    /\ caller' = [caller EXCEPT ![p] = None]
    /\ loc' = [loc EXCEPT ![p] = None]
    /\ outcome' = [outcome EXCEPT ![p] = out]
    /\ resp' = [resp EXCEPT ![p] = body]

\* a handler suspends at its next await
Suspend(p, r, at, cur, locals) ==
    /\ pc' = [pc EXCEPT ![p] = at]
    /\ req' = [req EXCEPT ![p] = r]
    /\ caller' = [caller EXCEPT ![p] = cur]
    /\ loc' = [loc EXCEPT ![p] = locals]
    /\ outcome' = [outcome EXCEPT ![p] = NoOutcome]
    /\ resp' = [resp EXCEPT ![p] = None]

\* user inserts that the in-flight handler p is still going to make
PendingUsers(p) ==
    CASE pc[p] = "register_insert" -> 1
      [] pc[p] \in {"seed_products", "seed_admin"} -> 2
      [] pc[p] = "seed_cashier" -> 1
      [] OTHER -> 0

\* product inserts that the in-flight handler p is still going to make
PendingProducts(p) ==
    CASE pc[p] = "create_insert" -> 1
      [] pc[p] = "seed_products" -> Len(DemoProducts)
      [] OTHER -> 0

\* sale inserts that the in-flight handler p is still going to make
PendingSales(p) == IF pc[p] = "sale_insert" THEN 1 ELSE 0

RECURSIVE SumPending(_, _)
SumPending(S, kind) ==
    IF S = {} THEN 0
    ELSE LET p == CHOOSE q \in S : TRUE
             n == CASE kind = "users" -> PendingUsers(p)
                    [] kind = "products" -> PendingProducts(p)
                    [] OTHER -> PendingSales(p)
         IN  n + SumPending(S \ {p}, kind)

\* the bounds on the collections, counting the inserts already under way
UsersRoom == MaxUsers - Len(users) - SumPending(Procs, "users")
ProductsRoom == MaxProducts - (nextPid - 1) - SumPending(Procs, "products")
SalesRoom == MaxSales - Len(sales) - SumPending(Procs, "sales")

\* ---------------------------------------------------------------- register
\* existing_user: find_one by the email of the body
ExistingUserNoLookup(email) == None

ExistingUser(email) == FindOne(users, LAMBDA u : u.email = email)

\* register, up to the insert: find_one by email, the duplicate check, the
\* hash and the User object
register_find(p, user_data, salt) ==
    /\ Ready(p)
    /\ LET r == [op |-> "register", data |-> user_data]
           existing_user == ExistingUser(user_data.email)
       IN  IF existing_user # None
           THEN Respond(p, r, EmailTaken, None)
           ELSE /\ UsersRoom >= 1
                /\ Suspend(p, r, "register_insert", None,
                       [doc |-> [email |-> user_data.email,
                                 name |-> user_data.name,
                                 role |-> user_data.role,
                                 created_at |-> now,
                                 password |-> get_password_hash(user_data.password, salt)]])
    /\ UNCHANGED <<users, products, sales, nextPid, now, issued, applied>>

\* register: insert_one and the response
register_insert(p) ==
    /\ pc[p] = "register_insert"
    /\ LET doc == [id |-> Len(users) + 1] @@ loc[p].doc
       IN  /\ users' = Append(users, doc)
           /\ Respond(p, req[p], Ok, PublicUser(doc))
    /\ UNCHANGED <<products, sales, nextPid, now, issued, applied>>

\* ------------------------------------------------------------------- login
\* the test of login: not user or not verify_password(...)
LoginRefusedNoVerify(user, password) == user = None

LoginRefused(user, password) ==
    user = None \/ ~verify_password(password, user.password)

login(p, credentials) ==
    /\ Ready(p)
    /\ LET r == [op |-> "login", data |-> credentials]
           user == FindOne(users, LAMBDA u : u.email = credentials.email)
       IN  IF LoginRefused(user, credentials.password)
           THEN /\ Respond(p, r, BadLogin, None)
                /\ UNCHANGED issued
           ELSE LET access_token == create_access_token(user.id)
                IN  /\ Cardinality(issued) < MaxTokens
                    /\ Respond(p, r, Ok, [access_token |-> access_token,
                                          token_type |-> "bearer",
                                          user |-> PublicUser(user)])
                    /\ issued' = issued \cup {[tok |-> access_token, iat |-> now]}
    /\ UNCHANGED <<users, products, sales, nextPid, now, applied>>

\* ------------------------------------------------------------------ get_me
get_me(p, token) ==
    /\ Ready(p)
    /\ LET r == [op |-> "get_me", token |-> token]
           cur == get_current_user(token)
       IN  IF cur.err # Ok
           THEN Respond(p, r, cur.err, None)
           ELSE Respond(p, r, Ok, PublicUser(cur.user))
    /\ UNCHANGED <<users, products, sales, nextPid, now, issued, applied>>

\* ---------------------------------------------------------- create_product
\* the gate of an admin route, and the Product object built from the body
create_product_auth(p, token, product) ==
    /\ Ready(p)
    /\ LET r == [op |-> "create_product", token |-> token, data |-> product]
           cur == get_admin_user(token)
       IN  IF cur.err # Ok
           THEN Respond(p, r, cur.err, None)
           ELSE /\ ProductsRoom >= 1
                /\ Suspend(p, r, "create_insert", cur.user,
                       [doc |-> product @@ [times_sold |-> 0, created_at |-> now]])
    /\ UNCHANGED <<users, products, sales, nextPid, now, issued, applied>>

create_product_insert(p) ==
    /\ pc[p] = "create_insert"
    /\ LET doc == [id |-> nextPid] @@ loc[p].doc
       IN  /\ products' = Append(products, doc)
           /\ nextPid' = nextPid + 1
           /\ Respond(p, req[p], Ok, doc)
    /\ UNCHANGED <<users, sales, now, issued, applied>>

\* ---------------------------------------------------------- update_product
\* a ProductUpdate holds each field as <<>> (None) or <<value>>
UpdateFields ==
    {"name", "category", "cost", "sale_price", "employee_price", "image_url"}

\* update_data: the items of the body that are not None
UpdateData(product) ==
    LET given == {k \in DOMAIN product : product[k] # <<>>}
    IN  [k \in given |-> product[k][1]]

\* the index of the first product with this id, 0 when there is none
IndexOf(coll, id) ==
    LET hits == {i \in DOMAIN coll : coll[i].id = id}
    IN  IF hits = {} THEN 0 ELSE Min(hits)

\* an update that writes the model defaults back along with the body: the
\* counter returns to 0
SetFieldsAndDefaults(coll, id, update_data) ==
    LET i == IndexOf(coll, id)
    IN  IF i = 0 THEN coll
        ELSE [coll EXCEPT ![i] =
                [f \in DOMAIN coll[i] |->
                    IF f \in DOMAIN update_data THEN update_data[f]
                    ELSE IF f = "times_sold" THEN 0 ELSE coll[i][f]]]

\* update_one {"$set": update_data} on the first product with this id
SetFields(coll, id, update_data) ==
    LET i == IndexOf(coll, id)
    IN  IF i = 0 THEN coll
        ELSE [coll EXCEPT ![i] =
                [f \in DOMAIN coll[i] |->
                    IF f \in DOMAIN update_data THEN update_data[f] ELSE coll[i][f]]]

update_product_auth(p, token, product_id, product) ==
    /\ Ready(p)
    /\ LET r == [op |-> "update_product", token |-> token,
                 product_id |-> product_id, data |-> product]
           cur == get_admin_user(token)
       IN  IF cur.err # Ok
           THEN Respond(p, r, cur.err, None)
           ELSE Suspend(p, r, "update_find", cur.user, None)
    /\ UNCHANGED <<users, products, sales, nextPid, now, issued, applied>>

update_product_find(p) ==
    /\ pc[p] = "update_find"
    /\ LET existing == FindOne(products, LAMBDA d : d.id = req[p].product_id)
           update_data == UpdateData(req[p].data)
       IN  IF existing = None
           THEN Respond(p, req[p], ProductNotFound, None)
           ELSE IF DOMAIN update_data # {}
           THEN Suspend(p, req[p], "update_set", caller[p],
                        [update_data |-> update_data])
           ELSE Suspend(p, req[p], "update_read", caller[p], None)
    /\ UNCHANGED <<users, products, sales, nextPid, now, issued, applied>>

update_product_set(p) ==
    /\ pc[p] = "update_set"
    /\ products' = SetFields(products, req[p].product_id, loc[p].update_data)
    /\ Suspend(p, req[p], "update_read", caller[p], None)
    /\ UNCHANGED <<users, sales, nextPid, now, issued, applied>>

\* the read back: updated["created_at"] on None is a TypeError, a 500
update_product_read(p) ==
    /\ pc[p] = "update_read"
    /\ LET updated == FindOne(products, LAMBDA d : d.id = req[p].product_id)
       IN  IF updated = None
           THEN Respond(p, req[p], ServerError, None)
           ELSE Respond(p, req[p], Ok, updated)
    /\ UNCHANGED <<users, products, sales, nextPid, now, issued, applied>>

\* ---------------------------------------------------------- delete_product
\* the sequence without its i-th element
RemoveAt(coll, i) ==
    [j \in 1 .. (Len(coll) - 1) |-> IF j < i THEN coll[j] ELSE coll[j + 1]]

delete_product_auth(p, token, product_id) ==
    /\ Ready(p)
    /\ LET r == [op |-> "delete_product", token |-> token,
                 product_id |-> product_id]
           cur == get_admin_user(token)
       IN  IF cur.err # Ok
           THEN Respond(p, r, cur.err, None)
           ELSE Suspend(p, r, "delete_one", cur.user, None)
    /\ UNCHANGED <<users, products, sales, nextPid, now, issued, applied>>

delete_product_one(p) ==
    /\ pc[p] = "delete_one"
    /\ LET i == IndexOf(products, req[p].product_id)
       IN  IF i = 0
           THEN /\ Respond(p, req[p], ProductNotFound, None)
                /\ UNCHANGED products
           ELSE /\ products' = RemoveAt(products, i)
                /\ Respond(p, req[p], Ok, [message |-> "Product deleted"])
    /\ UNCHANGED <<users, sales, nextPid, now, issued, applied>>

\* ------------------------------------------------------------- create_sale
\* an increment by twice the quantity of the line item
IncTimesSoldTwice(coll, id, quantity) ==
    LET i == IndexOf(coll, id)
    IN  IF i = 0 THEN coll
        ELSE [coll EXCEPT ![i].times_sold = @ + 2 * quantity]

\* an increment by one per line item, whatever its quantity
IncTimesSoldByOne(coll, id, quantity) ==
    LET i == IndexOf(coll, id)
    IN  IF i = 0 THEN coll
        ELSE [coll EXCEPT ![i].times_sold = @ + 1]

\* update_one {"$inc": {"times_sold": quantity}} on the first product with
\* this id
IncTimesSold(coll, id, quantity) ==
    LET i == IndexOf(coll, id)
    IN  IF i = 0 THEN coll
        ELSE [coll EXCEPT ![i].times_sold = @ + quantity]

\* no change made to any counter
NoneApplied == [id \in 0 .. MaxProducts |-> 0]

\* the times_sold of the product with this id, 0 when there is none
TimesSold(coll, id) ==
    LET i == IndexOf(coll, id)
    IN  IF i = 0 THEN 0 ELSE coll[i].times_sold

\* datetime.isoformat() of a UTC instant: "YYYY-MM-DDTHH:MM:SS+00:00", with
\* ".ffffff" after the seconds unless the fraction is 0.  The string is
\* held as <<whole seconds, fraction>>, fraction 0 for the string without
\* one ("+" sorts before ".")
isoformat(ticks) == <<ticks \div TicksPerSecond, ticks % TicksPerSecond>>

\* datetime.fromisoformat() of such a string
fromisoformat(str) == str[1] * TicksPerSecond + str[2]

\* the comparison of two such strings by the store: character by character
StrLeq(a, b) == a[1] < b[1] \/ (a[1] = b[1] /\ a[2] <= b[2])

\* a Sale object stamped with the first stored user, whoever calls
SaleOfFirstUser(sale_data, current_user) ==
    sale_data @@ [cashier_id |-> users[1].id,
                  cashier_name |-> users[1].name,
                  date |-> now]

\* Sale(**sale_data.model_dump(), cashier_id=..., cashier_name=...)
Sale(sale_data, current_user) ==
    sale_data @@ [cashier_id |-> current_user.id,
                  cashier_name |-> current_user.name,
                  date |-> now]

\* the gate, and the Sale object stamped with the caller and the time
create_sale_auth(p, token, sale_data) ==
    /\ Ready(p)
    /\ LET r == [op |-> "create_sale", token |-> token, data |-> sale_data]
           cur == get_current_user(token)
       IN  IF cur.err # Ok
           THEN Respond(p, r, cur.err, None)
           ELSE /\ SalesRoom >= 1
                /\ Suspend(p, r, "sale_insert", cur.user,
                       [doc |-> Sale(sale_data, cur.user)])
    /\ applied' = [applied EXCEPT ![p] = NoneApplied]
    /\ UNCHANGED <<users, products, sales, nextPid, now, issued>>

create_sale_insert(p) ==
    /\ pc[p] = "sale_insert"
    /\ LET doc == [id |-> Len(sales) + 1] @@ loc[p].doc
       IN  /\ sales' = Append(sales, [doc EXCEPT !.date = isoformat(@)])
           /\ IF Len(req[p].data.products) = 0
              THEN Respond(p, req[p], Ok, doc)
              ELSE Suspend(p, req[p], "sale_inc", caller[p],
                           [sale_obj |-> doc, i |-> 1])
    /\ UNCHANGED <<users, products, nextPid, now, issued, applied>>

\* one turn of the loop over sale_data.products
create_sale_inc(p) ==
    /\ pc[p] = "sale_inc"
    /\ LET i == loc[p].i
           item == req[p].data.products[i]
       IN  /\ products' = IncTimesSold(products, item.product_id, item.quantity)
           /\ IF i = Len(req[p].data.products)
              THEN Respond(p, req[p], Ok, loc[p].sale_obj)
              ELSE Suspend(p, req[p], "sale_inc", caller[p],
                           [loc[p] EXCEPT !.i = i + 1])
    /\ applied' = [applied EXCEPT ![p] =
                      [id \in DOMAIN @ |->
                          @[id] + TimesSold(products', id) - TimesSold(products, id)]]
    /\ UNCHANGED <<users, sales, nextPid, now, issued>>

\* the handler dies at an await of create_sale: what it has written stays,
\* what it had still to write is never written
create_sale_crash(p) ==
    /\ pc[p] \in {"sale_insert", "sale_inc"}
    /\ pc' = [pc EXCEPT ![p] = "crashed"]
    /\ UNCHANGED <<users, products, sales, nextPid, now, issued,
                   req, caller, loc, outcome, resp, applied>>

\* --------------------------------------------------------------- get_users
get_users_auth(p, token) ==
    /\ Ready(p)
    /\ LET r == [op |-> "get_users", token |-> token]
           cur == get_admin_user(token)
       IN  IF cur.err # Ok
           THEN Respond(p, r, cur.err, None)
           ELSE Suspend(p, r, "users_find", cur.user, None)
    /\ UNCHANGED <<users, products, sales, nextPid, now, issued, applied>>

get_users_find(p) ==
    /\ pc[p] = "users_find"
    /\ Respond(p, req[p], Ok, [i \in DOMAIN users |-> PublicUser(users[i])])
    /\ UNCHANGED <<users, products, sales, nextPid, now, issued, applied>>

\* --------------------------------------------------------------- get_sales
\* a date query with its upper bound exclusive
InRangeBelowEnd(sale, start_date, end_date) ==
    /\ start_date = <<>> \/ StrLeq(start_date[1], sale.date)
    /\ end_date = <<>> \/ ~StrLeq(end_date[1], sale.date)

\* {"date": {"$gte": start_date, "$lte": end_date}}: a bound of the query is
\* <<>> (absent) or <<string>>
InRange(sale, start_date, end_date) ==
    /\ start_date = <<>> \/ StrLeq(start_date[1], sale.date)
    /\ end_date = <<>> \/ StrLeq(sale.date, end_date[1])

\* db.sales.find(query): the matching sales, in insertion order
FindSales(start_date, end_date) ==
    SelectSeq(sales, LAMBDA sale : InRange(sale, start_date, end_date))

\* an insertion before the pairs of equal key
RECURSIVE InsertDescBeforeTies(_, _)
InsertDescBeforeTies(sorted, x) ==
    IF sorted = <<>> THEN <<x>>
    ELSE IF Head(sorted)[1] > x[1]
         THEN <<Head(sorted)>> \o InsertDescBeforeTies(Tail(sorted), x)
         ELSE <<x>> \o sorted

\* insert the pair x = <<key, value>> into a sequence of pairs sorted
\* descending by key, after the pairs of equal key
RECURSIVE InsertDesc(_, _)
InsertDesc(sorted, x) ==
    IF sorted = <<>> THEN <<x>>
    ELSE IF Head(sorted)[1] >= x[1]
         THEN <<Head(sorted)>> \o InsertDesc(Tail(sorted), x)
         ELSE <<x>> \o sorted

RECURSIVE SortPairsDesc(_)
SortPairsDesc(pairs) ==
    IF pairs = <<>> THEN <<>>
    ELSE InsertDesc(SortPairsDesc(SubSeq(pairs, 1, Len(pairs) - 1)),
                    pairs[Len(pairs)])

\* a stable sort of seq, descending by keys[i], the key of seq[i]
SortDesc(seq, keys) ==
    LET sorted == SortPairsDesc([i \in DOMAIN seq |-> <<keys[i], seq[i]>>])
    IN  [i \in DOMAIN sorted |-> sorted[i][2]]

get_sales_auth(p, token, start_date, end_date) ==
    /\ Ready(p)
    /\ LET r == [op |-> "get_sales", token |-> token,
                 start_date |-> start_date, end_date |-> end_date]
           cur == get_current_user(token)
       IN  IF cur.err # Ok
           THEN Respond(p, r, cur.err, None)
           ELSE Suspend(p, r, "sales_find", cur.user, None)
    /\ UNCHANGED <<users, products, sales, nextPid, now, issued, applied>>

get_sales_find(p) ==
    /\ pc[p] = "sales_find"
    /\ Respond(p, req[p], Ok,
               LET found == FindSales(req[p].start_date, req[p].end_date)
                   sorted == SortDesc(found, [i \in DOMAIN found |->
                                 fromisoformat(found[i].date)])
               IN  [i \in DOMAIN sorted |->
                       [sorted[i] EXCEPT !.date = fromisoformat(@)]])
    /\ UNCHANGED <<users, products, sales, nextPid, now, issued, applied>>

\* ------------------------------------------------------ get_report_summary
\* the start of the range when the request names none
DefaultStart(period) ==
    CASE period = "daily" -> <<isoformat(now - (now % TicksPerDay))>>
      [] period = "weekly" -> <<isoformat(now - 7 * TicksPerDay)>>
      [] period = "monthly" -> <<isoformat(now - 30 * TicksPerDay)>>
      [] period = "yearly" -> <<isoformat(now - 365 * TicksPerDay)>>
      [] OTHER -> <<>>

\* sum(...) of a sequence of numbers
RECURSIVE SumSeq(_)
SumSeq(seq) ==
    IF seq = <<>> THEN 0 ELSE Head(seq) + SumSeq(Tail(seq))

\* every line item of the sales, in order
RECURSIVE AllItems(_)
AllItems(ss) ==
    IF ss = <<>> THEN <<>> ELSE Head(ss).products \o AllItems(Tail(ss))

\* product_sales: one entry per product id, in first-seen order
RECURSIVE ProductSales(_, _)
ProductSales(items, acc) ==
    IF items = <<>> THEN acc
    ELSE LET item == Head(items)
             at == {k \in DOMAIN acc : acc[k].product_id = item.product_id}
             grown == IF at = {}
                      THEN Append(acc, [product_id |-> item.product_id,
                                        product_name |-> item.product_name,
                                        quantity |-> 0, revenue |-> 0])
                      ELSE acc
             k == IF at = {} THEN Len(grown) ELSE Min(at)
         IN  ProductSales(Tail(items),
                 [grown EXCEPT ![k].quantity = @ + item.quantity,
                               ![k].revenue = @ + item.subtotal])

\* fromisoformat(...).strftime("%Y-%m-%d"): the calendar day of the date
\* string of a sale, held as the number of the day (the keys of two days
\* sort as the days do)
DayKey(date) == fromisoformat(date) \div TicksPerDay

\* every element of the sequence kept, the repeated ones too
DedupNone(q) == q

\* the distinct elements of an ascending sequence
RECURSIVE Dedup(_)
Dedup(q) ==
    IF q = <<>> THEN <<>>
    ELSE IF Len(q) > 1 /\ q[1] = q[2] THEN Dedup(Tail(q))
    ELSE <<Head(q)>> \o Dedup(Tail(q))

\* daily_totals, as the list sorted ascending by day
DailySales(ss) ==
    LET keys == [i \in DOMAIN ss |-> DayKey(ss[i].date)]
        days == Dedup(SortDesc(keys, [i \in DOMAIN keys |-> 0 - keys[i]]))
    IN  [k \in DOMAIN days |->
            [date |-> days[k],
             total |-> SumSeq([i \in DOMAIN ss |->
                          IF keys[i] = days[k] THEN ss[i].total ELSE 0])]]

\* the length of the slice [:10]
TopN == 10

\* sorted(product_sales.values(), key=quantity, reverse=True)[:10]
TopProducts(product_sales) ==
    LET sorted == SortDesc(product_sales,
                      [i \in DOMAIN product_sales |-> product_sales[i].quantity])
    IN  SubSeq(sorted, 1, IF Len(sorted) < TopN THEN Len(sorted) ELSE TopN)

\* the ReportSummary built from the locals of the handler
ReportSummary(locals) ==
    [total_sales |-> locals.total_sales,
     total_transactions |-> locals.total_transactions,
     top_products |-> TopProducts(locals.product_sales),
     sales_by_category |-> locals.category_sales,
     daily_sales |-> locals.daily_sales]

get_report_summary_auth(p, token, period, start_date, end_date) ==
    /\ Ready(p)
    /\ LET r == [op |-> "get_report_summary", token |-> token, period |-> period,
                 start_date |-> start_date, end_date |-> end_date]
           cur == get_current_user(token)
       IN  IF cur.err # Ok
           THEN Respond(p, r, cur.err, None)
           ELSE Suspend(p, r, "report_find", cur.user,
                        [start_date |-> IF start_date = <<>>
                                        THEN DefaultStart(period)
                                        ELSE start_date,
                         end_date |-> end_date])
    /\ UNCHANGED <<users, products, sales, nextPid, now, issued, applied>>

\* db.sales.find and the aggregation over the sales it returns
get_report_summary_find(p) ==
    /\ pc[p] = "report_find"
    /\ LET found == FindSales(loc[p].start_date, loc[p].end_date)
           locals == [total_sales |-> SumSeq([i \in DOMAIN found |-> found[i].total]),
                      total_transactions |-> Len(found),
                      product_sales |-> ProductSales(AllItems(found), <<>>),
                      daily_sales |-> DailySales(found),
                      category_sales |-> <<>>,
                      k |-> 1]
       IN  IF locals.product_sales = <<>>
           THEN Respond(p, req[p], Ok, ReportSummary(locals))
           ELSE Suspend(p, req[p], "report_category", caller[p], locals)
    /\ UNCHANGED <<users, products, sales, nextPid, now, issued, applied>>

\* category_sales[category] = revenue: the last product of a category only
AddCategoryOverwrite(category_sales, category, revenue) ==
    [c \in DOMAIN category_sales \cup {category} |->
        IF c = category THEN revenue ELSE category_sales[c]]

\* category_sales[category] = category_sales.get(category, 0) + revenue
AddCategory(category_sales, category, revenue) ==
    [c \in DOMAIN category_sales \cup {category} |->
        (IF c \in DOMAIN category_sales THEN category_sales[c] ELSE 0)
        + (IF c = category THEN revenue ELSE 0)]

\* one turn of the loop over product_sales: the live category lookup
get_report_summary_category(p) ==
    /\ pc[p] = "report_category"
    /\ LET data == loc[p].product_sales[loc[p].k]
           product == FindOne(products, LAMBDA d : d.id = data.product_id)
           locals == [loc[p] EXCEPT
                         !.category_sales =
                             IF product = None THEN @
                             ELSE AddCategory(@, product.category, data.revenue),
                         !.k = @ + 1]
       IN  IF loc[p].k = Len(loc[p].product_sales)
           THEN Respond(p, req[p], Ok, ReportSummary(locals))
           ELSE Suspend(p, req[p], "report_category", caller[p], locals)
    /\ UNCHANGED <<users, products, sales, nextPid, now, issued, applied>>

\* --------------------------------------------------------------- seed_data
\* a count that finds every collection empty
count_documentsNone(coll) == 0

\* count_documents({}): the number of documents of the collection
count_documents(coll) == Len(coll)

\* count_documents and, on an empty catalog, the demo Product objects
seed_count(p) ==
    /\ Ready(p)
    /\ LET r == [op |-> "seed"]
           existing_products == count_documents(products)
       IN  IF existing_products > 0
           THEN Respond(p, r, Ok, [message |-> "Database already seeded"])
           ELSE /\ UsersRoom >= 2
                /\ ProductsRoom >= Len(DemoProducts)
                /\ Suspend(p, r, "seed_products", None,
                       [products_to_insert |->
                           [i \in DOMAIN DemoProducts |->
                               DemoProducts[i] @@
                                   [times_sold |-> 0, created_at |-> now]]])
    /\ UNCHANGED <<users, products, sales, nextPid, now, issued, applied>>

\* insert_many, then the admin User object and its password hash
seed_products(p, salt) ==
    /\ pc[p] = "seed_products"
    /\ LET docs == loc[p].products_to_insert
       IN  /\ products' = products \o
                  [i \in DOMAIN docs |-> [id |-> nextPid + i - 1] @@ docs[i]]
           /\ nextPid' = nextPid + Len(docs)
    /\ Suspend(p, req[p], "seed_admin", None,
               [doc |-> [email |-> "admin@pos.com", name |-> "Admin User",
                         role |-> "admin", created_at |-> now,
                         password |-> get_password_hash("admin123", salt)]])
    /\ UNCHANGED <<users, sales, now, issued, applied>>

\* insert_one of the admin, then the cashier User object and its hash
seed_admin(p, salt) ==
    /\ pc[p] = "seed_admin"
    /\ users' = Append(users, [id |-> Len(users) + 1] @@ loc[p].doc)
    /\ Suspend(p, req[p], "seed_cashier", None,
               [doc |-> [email |-> "cashier@pos.com", name |-> "Cashier User",
                         role |-> "cashier", created_at |-> now,
                         password |-> get_password_hash("cashier123", salt)]])
    /\ UNCHANGED <<products, sales, nextPid, now, issued, applied>>

seed_cashier(p) ==
    /\ pc[p] = "seed_cashier"
    /\ users' = Append(users, [id |-> Len(users) + 1] @@ loc[p].doc)
    /\ Respond(p, req[p], Ok, [message |-> "Database seeded successfully",
                               products_count |-> Len(DemoProducts),
                               users_created |-> 2])
    /\ UNCHANGED <<products, sales, nextPid, now, issued, applied>>

\* ------------------------------------------------------------------- clock
MaxClock == TokenLifetime + ClockSlack

\* the instants explored: the start and one tick after it, and from one tick
\* before the lifetime of a token has passed to ClockSlack ticks after it
Instants ==
    {0, 1} \cup ((TokenLifetime - 1) .. MaxClock)

\* time passes, to a later one of the given instants
Tick(instants) ==
    /\ \E t \in instants :
          /\ t > now
          /\ now' = t
    /\ UNCHANGED <<users, products, sales, nextPid, issued,
                   pc, req, caller, loc, outcome, resp, applied>>

\* ------------------------------------------------------------------- start
Init ==
    /\ users = <<>>
    /\ products = <<>>
    /\ sales = <<>>
    /\ nextPid = 1
    /\ now = 0
    /\ issued = {}
    /\ pc = [p \in Procs |-> "idle"]
    /\ req = [p \in Procs |-> NoReq]
    /\ caller = [p \in Procs |-> None]
    /\ loc = [p \in Procs |-> None]
    /\ outcome = [p \in Procs |-> NoOutcome]
    /\ resp = [p \in Procs |-> None]
    /\ applied = [p \in Procs |-> NoneApplied]

\* ------------------------------------------------------------------ inputs
RegisterInputs ==
    [email : {"admin@pos.com", "new@pos.com"}, password : {"admin123", "pw"},
     name : {"New User"}, role : {"cashier"}]

LoginInputs ==
    {[email |-> "admin@pos.com", password |-> "admin123"],
     [email |-> "admin@pos.com", password |-> "pw"],
     [email |-> "cashier@pos.com", password |-> "cashier123"],
     [email |-> "new@pos.com", password |-> "pw"],
     [email |-> "new@pos.com", password |-> "admin123"]}

\* tokens a client can present: none, one that login returned, such a token
\* with its signature broken, and tokens signed with the key that carry no
\* subject or the id of no stored user
ForeignTokens ==
    {[sub |-> 0, exp |-> NumericDate(MaxClock) + 1, sig |-> "good"],
     [sub |-> MaxUsers + 1, exp |-> NumericDate(MaxClock) + 1, sig |-> "good"]}

LoginTokens == {t.tok : t \in issued}

TokenInputs ==
    {NoToken} \cup LoginTokens
        \cup {[tok EXCEPT !.sig = "bad"] : tok \in LoginTokens}
        \cup ForeignTokens

NewProducts ==
    {[name |-> "Mocha", category |-> "hot_drinks", cost |-> 180,
      sale_price |-> 425, employee_price |-> 0, image_url |-> ""]}

UpdateInputs ==
    {[name |-> <<>>, category |-> <<>>, cost |-> <<>>, sale_price |-> <<999>>,
      employee_price |-> <<>>, image_url |-> <<>>],
     [name |-> <<"Renamed">>, category |-> <<"extras">>, cost |-> <<>>,
      sale_price |-> <<>>, employee_price |-> <<>>, image_url |-> <<>>],
     [name |-> <<>>, category |-> <<>>, cost |-> <<>>, sale_price |-> <<>>,
      employee_price |-> <<>>, image_url |-> <<>>]}

\* a line item as the client builds it for a product id
LineItem(id, quantity) ==
    [product_id |-> id, product_name |-> "snapshot", quantity |-> quantity,
     unit_price |-> 100, subtotal |-> 100 * quantity]

\* a SaleCreate body with the defaults of its optional fields
SaleBody(items, total) ==
    [products |-> items, total |-> total, customer_type |-> "customer",
     payment_method |-> "cash", amount_paid |-> 0, change_amount |-> 0]

\* ---------------------------------------------------------- specifications
\* the awaited steps of seed_data after its count
Seeding(p) ==
    \/ \E s \in Salts : seed_products(p, s)
    \/ \E s \in Salts : seed_admin(p, s)
    \/ seed_cashier(p)

\* the requests that write products or sales, with a token out of tokens, a
\* product id out of ids and bodies out of updates and bodies
Writes(p, tokens, ids, updates, bodies) ==
    \E token \in tokens :
        \/ \E d \in NewProducts : create_product_auth(p, token, d)
        \/ \E id \in ids, d \in updates : update_product_auth(p, token, id, d)
        \/ \E id \in ids : delete_product_auth(p, token, id)
        \/ \E d \in bodies : create_sale_auth(p, token, d)

ContinueWrites(p) ==
    \/ create_product_insert(p)
    \/ update_product_find(p)
    \/ update_product_set(p)
    \/ update_product_read(p)
    \/ delete_product_one(p)
    \/ create_sale_insert(p)
    \/ create_sale_inc(p)

\* the requests behind the gate that only read
Reads(p, tokens) ==
    \E token \in tokens :
        \/ get_me(p, token)
        \/ get_sales_auth(p, token, <<>>, <<>>)
        \/ get_report_summary_auth(p, token, "daily", <<>>, <<>>)
        \/ get_users_auth(p, token)

ContinueReads(p) ==
    \/ get_sales_find(p)
    \/ get_report_summary_find(p)
    \/ get_report_summary_category(p)
    \/ get_users_find(p)

SeedLogins ==
    {[email |-> "admin@pos.com", password |-> "admin123"],
     [email |-> "cashier@pos.com", password |-> "cashier123"]}

\* the gate: one handler serves requests one after the other, with every
\* kind of token
GateUpdates ==
    {[name |-> <<>>, category |-> <<>>, cost |-> <<>>, sale_price |-> <<999>>,
      employee_price |-> <<>>, image_url |-> <<>>]}

GateSales == {SaleBody(<<LineItem(1, 2)>>, 200)}

\* the token that login returned to the first stored user more than seven
\* days ago
ExpiredTokens == {[sub |-> 1, exp |-> NumericDate(now) - 1, sig |-> "good"]}

\* the tokens presented at the gate
GateTokens == TokenInputs \cup ExpiredTokens

NextGate ==
    \/ seed_count("h1")
    \/ Seeding("h1")
    \/ \E c \in SeedLogins : login("h1", c)
    \/ Writes("h1", GateTokens, {1}, GateUpdates, GateSales)
    \/ ContinueWrites("h1")
    \/ Reads("h1", GateTokens)
    \/ ContinueReads("h1")

SpecGate == Init /\ [][NextGate]_vars

\* tokens: logins and requests with the tokens they returned, tick by tick
\* up to and past the expiry
NextToken ==
    \/ seed_count("h1")
    \/ Seeding("h1")
    \/ login("h1", [email |-> "admin@pos.com", password |-> "admin123"])
    \/ \E p \in Procs, token \in TokenInputs : get_me(p, token)
    \/ Tick(Instants)

SpecToken == Init /\ [][NextToken]_vars

\* the catalog: two handlers serve admitted requests that write products
\* and sales
CatalogSales ==
    {SaleBody(<<LineItem(1, 2), LineItem(2, 3)>>, 500),
     SaleBody(<<LineItem(1, 0 - 1)>>, 0 - 100)}

NextCatalog ==
    \/ seed_count("h1")
    \/ Seeding("h1")
    \/ login("h1", [email |-> "admin@pos.com", password |-> "admin123"])
    \/ \E p \in Procs :
           \/ Writes(p, LoginTokens, {1}, UpdateInputs, CatalogSales)
           \/ ContinueWrites(p)

SpecCatalog == Init /\ [][NextCatalog]_vars

\* accounts: registration, login and seeding, interleaved
Accounts(p) ==
    \/ \E d \in RegisterInputs, s \in Salts : register_find(p, d, s)
    \/ register_insert(p)
    \/ \E c \in LoginInputs : login(p, c)
    \/ seed_count(p)
    \/ \E s \in Salts : seed_products(p, s)
    \/ \E s \in Salts : seed_admin(p, s)
    \/ seed_cashier(p)

NextAccounts == \E p \in Procs : Accounts(p)

SpecAccounts == Init /\ [][NextAccounts]_vars

\* prices: one handler serves the admin's creations and updates of products,
\* with numbers of either sign in the bodies
PricedProducts ==
    {[name |-> "Mocha", category |-> "hot_drinks", cost |-> c,
      sale_price |-> 425, employee_price |-> e, image_url |-> ""] :
        c \in {180, 0 - 180}, e \in {0, 0 - 1}}

PriceUpdates ==
    {[name |-> <<>>, category |-> <<>>, cost |-> <<>>, sale_price |-> <<sp>>,
      employee_price |-> <<>>, image_url |-> <<>>] : sp \in {0, 0 - 999}}

NextPrices ==
    \/ seed_count("h1")
    \/ Seeding("h1")
    \/ login("h1", [email |-> "admin@pos.com", password |-> "admin123"])
    \/ \E token \in LoginTokens :
          \/ \E d \in PricedProducts : create_product_auth("h1", token, d)
          \/ \E id \in {1, 2}, d \in PriceUpdates :
                update_product_auth("h1", token, id, d)
    \/ create_product_insert("h1")
    \/ update_product_find("h1")
    \/ update_product_set("h1")
    \/ update_product_read("h1")

SpecPrices == Init /\ [][NextPrices]_vars

\* the ledger: two handlers serve sales of the admin and the cashier, with
\* positive quantities, next to a rename and a delete of a product, and a
\* handler may die in the middle of a sale
LedgerSales ==
    {SaleBody(<<LineItem(1, 2), LineItem(2, 1)>>, 300),
     SaleBody(<<LineItem(1, 1)>>, 100)}

LedgerUpdates ==
    {[name |-> <<"Renamed">>, category |-> <<>>, cost |-> <<>>,
      sale_price |-> <<999>>, employee_price |-> <<>>, image_url |-> <<>>]}

NextLedger ==
    \/ seed_count("h1")
    \/ Seeding("h1")
    \/ \E c \in SeedLogins : login("h1", c)
    \/ \E p \in Procs :
          \/ \E token \in LoginTokens, d \in LedgerSales :
                create_sale_auth(p, token, d)
          \/ create_sale_insert(p)
          \/ create_sale_inc(p)
          \/ create_sale_crash(p)
    \/ \E token \in LoginTokens :
          \/ \E d \in LedgerUpdates : update_product_auth("h2", token, 1, d)
          \/ delete_product_auth("h2", token, 1)
    \/ update_product_find("h2")
    \/ update_product_set("h2")
    \/ update_product_read("h2")
    \/ delete_product_one("h2")

SpecLedger == Init /\ [][NextLedger]_vars

\* a line item with the name the client read off the catalog
NamedItem(id, name, quantity) ==
    [LineItem(id, quantity) EXCEPT !.product_name = name]

\* report ranges: one handler serves sales on two days and reports over
\* ranges with both bounds, one bound and none
ReportInstants == {0, 1, TicksPerDay}

RangeSales ==
    {SaleBody(<<NamedItem(1, "Iced Coffee", 2)>>, 10),
     SaleBody(<<NamedItem(1, "Iced Coffee", 1), NamedItem(2, "Croissant", 1)>>, 15)}

ReportRanges ==
    {[period |-> "daily", start_date |-> <<>>, end_date |-> <<>>],
     [period |-> "weekly", start_date |-> <<>>, end_date |-> <<>>],
     [period |-> "daily", start_date |-> <<>>, end_date |-> <<isoformat(1)>>],
     [period |-> "daily", start_date |-> <<isoformat(1)>>, end_date |-> <<>>],
     [period |-> "daily", start_date |-> <<isoformat(0)>>,
      end_date |-> <<isoformat(0)>>],
     [period |-> "daily", start_date |-> <<isoformat(0)>>,
      end_date |-> <<isoformat(TicksPerDay)>>]}

NextRanges ==
    \/ seed_count("h1")
    \/ Seeding("h1")
    \/ login("h1", [email |-> "admin@pos.com", password |-> "admin123"])
    \/ \E token \in LoginTokens :
          \/ \E d \in RangeSales : create_sale_auth("h1", token, d)
          \/ \E r \in ReportRanges :
                get_report_summary_auth("h1", token, r.period,
                                        r.start_date, r.end_date)
    \/ create_sale_insert("h1")
    \/ create_sale_inc("h1")
    \/ get_report_summary_find("h1")
    \/ get_report_summary_category("h1")
    \/ Tick(ReportInstants)

SpecRanges == Init /\ [][NextRanges]_vars

\* report aggregates: one handler serves sales that name more products than
\* a report lists, a change of category, a delete, and reports of the day
TopSales ==
    {SaleBody([i \in 1 .. (TopN + 1) |-> NamedItem(i, "first", 1 + (i % 3))], 0),
     SaleBody(<<NamedItem(9, "later", 3), NamedItem(2, "later", 1)>>, 5)}

TopUpdates ==
    {[name |-> <<"Renamed">>, category |-> <<"cold_drinks">>, cost |-> <<>>,
      sale_price |-> <<>>, employee_price |-> <<>>, image_url |-> <<>>]}

NextTop ==
    \/ seed_count("h1")
    \/ Seeding("h1")
    \/ login("h1", [email |-> "admin@pos.com", password |-> "admin123"])
    \/ \E token \in LoginTokens :
          \/ \E d \in TopSales : create_sale_auth("h1", token, d)
          \/ \E d \in TopUpdates : update_product_auth("h1", token, 2, d)
          \/ delete_product_auth("h1", token, 1)
          \/ get_report_summary_auth("h1", token, "daily", <<>>, <<>>)
    \/ create_sale_insert("h1")
    \/ create_sale_inc("h1")
    \/ update_product_find("h1")
    \/ update_product_set("h1")
    \/ update_product_read("h1")
    \/ delete_product_one("h1")
    \/ get_report_summary_find("h1")
    \/ get_report_summary_category("h1")

SpecTop == Init /\ [][NextTop]_vars

\* seeding: the handlers serve seed requests and nothing else, while time
\* passes
NextSeed ==
    \/ \E p \in Procs : seed_count(p) \/ Seeding(p)
    \/ Tick(ReportInstants)

SpecSeed == Init /\ [][NextSeed]_vars

\* ------------------------------------------------------------------ claims
\* the handler p starts serving a request in this step
Starts(p) ==
    /\ Ready(p)
    /\ <<pc[p], req[p], outcome[p], resp[p]>>' # <<pc[p], req[p], outcome[p], resp[p]>>

StoredEmails == {users[i].email : i \in DOMAIN users}

\* C1: no two user records have the same email, in every reachable state
\* of the users collection, under interleaved register and seed requests.
C1_EmailsUnique ==
    \A i, j \in DOMAIN users : i # j => users[i].email # users[j].email

\* C2: a register call with an email that a stored user already has fails
\* with the Conflict error (400, "Email already registered") and leaves the
\* users collection as it was.
C2_DuplicateRegisterRefused ==
    [][\A p \in Procs :
          (Starts(p) /\ req'[p].op = "register"
                     /\ req'[p].data.email \in StoredEmails)
          => (pc'[p] = "done" /\ outcome'[p] = EmailTaken /\ users' = users)]_vars

C2_Witness ==
    \E p \in Procs :
        /\ pc[p] = "done" /\ req[p].op = "register" /\ outcome[p] = EmailTaken
        /\ req[p].data.email \in StoredEmails

\* C3: login with an unknown email and login with a known email whose
\* password verifies against no stored record of that email fail with one
\* and the same 401 outcome, return no token and change nothing stored; a
\* token is returned only for a stored user with that email whose hash the
\* password verifies against, and it carries that user's id.
C3_LoginOutcome ==
    [][\A p \in Procs :
          (Starts(p) /\ req'[p].op = "login")
          => LET c == req'[p].data
                 matching == {i \in DOMAIN users :
                                 /\ users[i].email = c.email
                                 /\ users[i].password.digest[2] = c.password}
             IN  /\ matching = {}
                     => /\ outcome'[p] = BadLogin
                        /\ resp'[p] = None
                        /\ issued' = issued
                        /\ store' = store
                 /\ outcome'[p] = Ok
                     => \E i \in matching :
                            /\ resp'[p].access_token.sub = users[i].id
                            /\ resp'[p].access_token.sig = "good"]_vars

\* a login with a stored email and a wrong password and a login with an
\* unknown email have both been refused, after a login that succeeded
C3_Witness ==
    \E p, q \in Procs :
        /\ pc[p] = "done" /\ req[p].op = "login" /\ outcome[p] = BadLogin
        /\ req[p].data.email \in StoredEmails
        /\ pc[q] = "done" /\ req[q].op = "login" /\ outcome[q] = outcome[p]
        /\ req[q].data.email \notin StoredEmails
        /\ issued # {}

\* the handler p takes a step
Moves(p) ==
    <<pc[p], req[p], caller[p], loc[p], outcome[p], resp[p]>>'
        # <<pc[p], req[p], caller[p], loc[p], outcome[p], resp[p]>>

GatedOps ==
    {"get_me", "create_product", "update_product", "delete_product",
     "create_sale", "get_sales", "get_report_summary", "get_users"}

AdminOps == {"create_product", "update_product", "delete_product", "get_users"}

\* the issue instants of a token that login returned
IssuedAt(token) == {e.iat : e \in {x \in issued : x.tok = token}}

\* C4 as stated: a token issued for U resolves to U's id at every instant
\* before issue + 7 days, a token whose signature does not verify is
\* Invalid, and a token presented after issue + 7 days is Invalid.
C4_ExpiresAtSevenDays ==
    [][\A p \in Procs :
          (Starts(p) /\ req'[p].op = "get_me")
          => LET token == req'[p].token
             IN  /\ token.sig = "bad" => outcome'[p] = BadCredentials
                 /\ \A t \in IssuedAt(token) :
                       /\ now < t + TokenLifetime
                           => outcome'[p] = Ok /\ resp'[p].id = token.sub
                       /\ now > t + TokenLifetime
                           => outcome'[p] = BadCredentials]_vars

\* C4 as amended: a token issued for U resolves to U's id at every instant
\* before issue + 7 days, a token whose signature does not verify is
\* Invalid, and a token presented one second or more after issue + 7 days
\* is Invalid.
C4_ExpiresWithinASecond ==
    [][\A p \in Procs :
          (Starts(p) /\ req'[p].op = "get_me")
          => LET token == req'[p].token
             IN  /\ token.sig = "bad" => outcome'[p] = BadCredentials
                 /\ \A t \in IssuedAt(token) :
                       /\ now < t + TokenLifetime
                           => outcome'[p] = Ok /\ resp'[p].id = token.sub
                       /\ now >= t + TokenLifetime + TicksPerSecond
                           => outcome'[p] = BadCredentials]_vars

\* one token of login was accepted by one handler before its expiry and
\* refused by the other after it
C4_Witness ==
    \E p, q \in Procs :
        /\ pc[p] = "done" /\ req[p].op = "get_me" /\ outcome[p] = Ok
        /\ pc[q] = "done" /\ req[q].op = "get_me" /\ outcome[q] = BadCredentials
        /\ req[q].token = req[p].token
        /\ req[p].token \in LoginTokens
        /\ resp[p].id = req[p].token.sub

\* the token is missing or Invalid, or names no subject or no stored user
Unacceptable(token) ==
    \/ token.sig # "good"
    \/ token.exp < now \div TicksPerSecond
    \/ token.sub = 0
    \/ \A i \in DOMAIN users : users[i].id # token.sub

\* C5: a request of a token-protected operation whose token is missing,
\* Invalid, without subject or with the id of no stored user ends at the
\* gate with a 401 and changes none of the collections.
C5_GateRefuses ==
    [][\A p \in Procs :
          (Starts(p) /\ req'[p].op \in GatedOps /\ Unacceptable(req'[p].token))
          => /\ pc'[p] = "done"
             /\ outcome'[p].status = 401
             /\ store' = store]_vars

\* a sale was refused for the expired token of a stored user, on a seeded
\* catalog
C5_Witness ==
    /\ pc["h1"] = "done" /\ req["h1"].op = "create_sale"
    /\ outcome["h1"] = BadCredentials
    /\ req["h1"].token.sig = "good"
    /\ req["h1"].token.exp < now \div TicksPerSecond
    /\ \E i \in DOMAIN users : users[i].id = req["h1"].token.sub
    /\ products # <<>>
    /\ sales = <<>>

\* the stored user a token resolves to, None when it is unacceptable
Holder(token) ==
    IF Unacceptable(token) THEN None
    ELSE users[Min({i \in DOMAIN users : users[i].id = token.sub})]

\* C6: an admin-only operation called with the valid token of a user who
\* is no admin fails with 403 and changes nothing; called with the valid
\* token of an admin it passes the gate and the handler goes on.
C6_AdminGate ==
    [][\A p \in Procs :
          (Starts(p) /\ req'[p].op \in AdminOps /\ ~Unacceptable(req'[p].token))
          => IF Holder(req'[p].token).role # "admin"
             THEN /\ pc'[p] = "done"
                  /\ outcome'[p] = AdminRequired
                  /\ store' = store
             ELSE /\ pc'[p] # "done"
                  /\ caller'[p] = Holder(req'[p].token)]_vars

\* the cashier was refused a product that an admin had created before
C6_Witness ==
    /\ pc["h1"] = "done" /\ req["h1"].op = "create_product"
    /\ outcome["h1"] = AdminRequired
    /\ ~Unacceptable(req["h1"].token)
    /\ Holder(req["h1"].token).role = "cashier"
    /\ \E i \in DOMAIN products : products[i].name = "Mocha"

\* the document after a $set of the non-null fields of body
Overwritten(doc, body) ==
    [f \in DOMAIN doc |->
        IF f \in UpdateFields /\ body[f] # <<>> THEN body[f][1] ELSE doc[f]]

\* C7: the write of update_product overwrites, in the first product with
\* the id, exactly the fields the body gives a non-null value, and leaves
\* every other field and every other product as the step found them; the
\* other steps of update_product write nothing.
C7_PartialUpdate ==
    [][\A p \in Procs :
          (Moves(p) /\ req[p].op = "update_product" /\ ~Ready(p))
          => IF pc[p] = "update_set"
             THEN /\ Len(products') = Len(products)
                  /\ \A i \in DOMAIN products :
                        products'[i] =
                            IF i = IndexOf(products, req[p].product_id)
                            THEN Overwritten(products[i], req[p].data)
                            ELSE products[i]
             ELSE products' = products]_vars

\* an update of the price of product 1 is through while a sale that has
\* already counted product 1 is still under way: the price is new, the
\* counter and the name are kept
C7_Witness ==
    \E p, q \in Procs :
        /\ pc[p] = "done" /\ req[p].op = "update_product" /\ outcome[p] = Ok
        /\ req[p].product_id = 1 /\ req[p].data.sale_price = <<999>>
        /\ pc[q] = "sale_inc" /\ loc[q].i = 2
        /\ \E i \in DOMAIN products :
               /\ products[i].id = 1
               /\ products[i].sale_price = 999
               /\ products[i].times_sold = 2
               /\ products[i].name = "Iced Coffee"

\* C8 as stated: update_product and delete_product on an id that is not
\* in the catalog end with 404 and leave the catalog unchanged, wherever
\* in the handler the id is found absent.
C8_AbsentIsNotFound ==
    [][\A p \in Procs :
          (/\ Moves(p)
           /\ pc[p] \in {"update_find", "update_set", "update_read", "delete_one"}
           /\ IndexOf(products, req[p].product_id) = 0)
          => /\ products' = products
             /\ pc[p] # "update_set" => outcome'[p] = ProductNotFound]_vars

\* the sum of the quantities of the line items on this product id
RECURSIVE QuantityOf(_, _)
QuantityOf(items, id) ==
    IF items = <<>> THEN 0
    ELSE (IF Head(items).product_id = id THEN Head(items).quantity ELSE 0)
         + QuantityOf(Tail(items), id)

\* C9: when create_sale has run to completion, it has raised the
\* times_sold of each product of the catalog by the sum of the quantities
\* of its line items on that product, and by 0 when it has none.
C9_CountersFollowQuantities ==
    \A p \in Procs :
        (pc[p] = "done" /\ req[p].op = "create_sale" /\ outcome[p] = Ok)
        => \A i \in DOMAIN products :
               applied[p][products[i].id]
                   = QuantityOf(req[p].data.products, products[i].id)

\* a sale of 2 of product 1 and 3 of product 2 is through, and the
\* catalog holds a product it did not name
C9_Witness ==
    \E p \in Procs :
        /\ pc[p] = "done" /\ req[p].op = "create_sale" /\ outcome[p] = Ok
        /\ Len(req[p].data.products) = 2
        /\ applied[p][1] = 2 /\ applied[p][2] = 3
        /\ TimesSold(products, 1) >= 2 /\ TimesSold(products, 2) >= 3
        /\ \E i \in DOMAIN products : products[i].id = 3

\* C10 as stated: no step lowers the times_sold of a stored product, and
\* the only step that changes it is an increment of a create_sale whose
\* sale record is stored.
C10_TimesSoldMonotone ==
    [][\A i \in DOMAIN products, j \in DOMAIN products' :
          products[i].id = products'[j].id
          => /\ products'[j].times_sold >= products[i].times_sold
             /\ products'[j].times_sold # products[i].times_sold
                 => \E p \in Procs :
                       /\ pc[p] = "sale_inc"
                       /\ Moves(p)
                       /\ \E k \in DOMAIN sales :
                              sales[k].id = loc[p].sale_obj.id]_vars

\* C11 as stated: every stored product has cost >= 0, sale_price >= 0 and
\* employee_price >= 0 in every reachable state, whatever numbers the
\* create_product and update_product requests carry.
C11_PricesNonNegative ==
    \A i \in DOMAIN products :
        /\ products[i].cost >= 0
        /\ products[i].sale_price >= 0
        /\ products[i].employee_price >= 0

\* C12: the sales ledger only grows at its end; a create_sale request that
\* passed the gate stores one sale record, at its insert step and at no
\* other, with the id and the name of the user its token resolved to and
\* the line items and total of its body; no other step of any operation
\* changes, removes or adds a sale record.
C12_LedgerAppendOnly ==
    [][/\ Len(sales') >= Len(sales)
       /\ \A k \in DOMAIN sales : sales'[k] = sales[k]
       /\ sales' # sales
           => \E p \in Procs : pc[p] = "sale_insert" /\ pc'[p] # "sale_insert"
       /\ \A p \in Procs :
             /\ (Starts(p) /\ req'[p].op = "create_sale"
                           /\ ~Unacceptable(req'[p].token))
                 => /\ pc'[p] = "sale_insert"
                    /\ caller'[p] = Holder(req'[p].token)
                    /\ sales' = sales
             /\ (Moves(p) /\ pc[p] = "sale_insert" /\ pc'[p] # "crashed")
                 => /\ Len(sales') = Len(sales) + 1
                    /\ LET rec == sales'[Len(sales')]
                       IN  /\ rec.cashier_id = caller[p].id
                           /\ rec.cashier_name = caller[p].name
                           /\ rec.products = req[p].data.products
                           /\ rec.total = req[p].data.total
             /\ (Moves(p) /\ pc[p] = "sale_inc") => sales' = sales]_vars

\* a sale of the cashier is in the ledger with the cashier's id and name
\* and its snapshot of product 1, after product 1 was deleted from the
\* catalog
C12_Witness ==
    /\ \E k \in DOMAIN sales :
          /\ sales[k].cashier_name = "Cashier User"
          /\ \E u \in DOMAIN users :
                users[u].id = sales[k].cashier_id /\ users[u].role = "cashier"
          /\ sales[k].products[1].product_id = 1
          /\ sales[k].products[1].product_name = "snapshot"
    /\ Len(sales) = MaxSales
    /\ IndexOf(products, 1) = 0
    /\ pc["h2"] = "done" /\ req["h2"].op = "delete_product" /\ outcome["h2"] = Ok

\* C13: a seed request that finds at least one product in the catalog ends
\* at once, reports "Database already seeded" and leaves the products, the
\* users and the sales as they were.
C13_SeedIdempotent ==
    [][\A p \in Procs :
          (Starts(p) /\ req'[p].op = "seed" /\ products # <<>>)
          => /\ pc'[p] = "done"
             /\ outcome'[p] = Ok
             /\ resp'[p] = [message |-> "Database already seeded"]
             /\ store' = store]_vars

\* a second seed was answered "already seeded" on the catalog and the two
\* users that the first seed left
C13_Witness ==
    \E p \in Procs :
        /\ pc[p] = "done" /\ req[p].op = "seed"
        /\ resp[p] = [message |-> "Database already seeded"]
        /\ Len(products) = Len(DemoProducts)
        /\ Len(users) = 2
        /\ \A q \in Procs : Ready(q)

\* a report that the handler p has answered
Reported(p) ==
    pc[p] = "done" /\ req[p].op = "get_report_summary" /\ outcome[p] = Ok

\* the instant of a stored sale
SaleInstant(k) == fromisoformat(sales[k].date)

\* the sum of the total fields of the stored sales with these indices
RECURSIVE SumTotals(_)
SumTotals(S) ==
    IF S = {} THEN 0
    ELSE LET k == CHOOSE x \in S : TRUE
         IN  sales[k].total + SumTotals(S \ {k})

C16_BoundsIndependent ==
    \A p \in Procs :
        (Reported(p) /\ (req[p].start_date # <<>> \/ req[p].end_date # <<>>))
        => LET within ==
                   {k \in DOMAIN sales :
                       /\ req[p].start_date # <<>>
                           => fromisoformat(req[p].start_date[1]) <= SaleInstant(k)
                       /\ req[p].end_date # <<>>
                           => SaleInstant(k) <= fromisoformat(req[p].end_date[1])}
           IN  resp[p].total_transactions = Cardinality(within)

\* the stored sales inside the bounds that the report of p asks the store
\* for (a bound is <<>> when the query has none)
Selected(start_date, end_date) ==
    {k \in DOMAIN sales :
        /\ start_date # <<>> => fromisoformat(start_date[1]) <= SaleInstant(k)
        /\ end_date # <<>> => SaleInstant(k) <= fromisoformat(end_date[1])}

\* the calendar day of a stored sale
SaleDay(k) == SaleInstant(k) \div TicksPerDay

ReportedItems(p) ==
    LET start_date == IF req[p].start_date = <<>>
                      THEN DefaultStart(req[p].period)
                      ELSE req[p].start_date
        within == Selected(start_date, req[p].end_date)
    IN  AllItems(SelectSeq([k \in DOMAIN sales |-> IF k \in within
                                                   THEN sales[k]
                                                   ELSE [products |-> <<>>]],
                           LAMBDA x : TRUE))

\* the sum of the subtotals of the line items on this product id
RECURSIVE RevenueOf(_, _)
RevenueOf(items, id) ==
    IF items = <<>> THEN 0
    ELSE (IF Head(items).product_id = id THEN Head(items).subtotal ELSE 0)
         + RevenueOf(Tail(items), id)

\* the position of the first line item on this product id
FirstSeen(items, id) == Min({i \in DOMAIN items : items[i].product_id = id})

\* the product a comes before the product b in a list of top products
Before(items, a, b) ==
    \/ QuantityOf(items, a) > QuantityOf(items, b)
    \/ /\ QuantityOf(items, a) = QuantityOf(items, b)
       /\ FirstSeen(items, a) < FirstSeen(items, b)

RECURSIVE RevenueOfAll(_, _)
RevenueOfAll(items, S) ==
    IF S = {} THEN 0
    ELSE LET id == CHOOSE x \in S : TRUE
         IN  RevenueOf(items, id) + RevenueOfAll(items, S \ {id})

\* the sum of the entries of a mapping at the keys of S
RECURSIVE SumEntries(_, _)
SumEntries(f, S) ==
    IF S = {} THEN 0
    ELSE LET c == CHOOSE x \in S : TRUE
         IN  f[c] + SumEntries(f, S \ {c})

\* the category of the catalog record with this id
CategoryOf(id) == products[IndexOf(products, id)].category

LedgerQuantity(id) == QuantityOf(AllItems(sales), id)

\* C19: with positive quantities, the times_sold of a product of the
\* catalog is never above the sum of the quantities of the line items of
\* the ledger on its id, whether a create_sale is suspended or has died
\* between its insert and its increments; and when every handler has run
\* its request to the end, the two are equal for every product of the
\* catalog.
C19_CountersNeverOverCount ==
    \A i \in DOMAIN products :
        /\ products[i].times_sold <= LedgerQuantity(products[i].id)
        /\ (\A p \in Procs : Ready(p))
            => products[i].times_sold = LedgerQuantity(products[i].id)

\* a handler died between the two increments of its sale: the sale is in
\* the ledger, product 1 is counted and product 2 is not, while the sale
\* of the other handler went through
C19_Witness ==
    \E p, q \in Procs :
        /\ pc[p] = "crashed" /\ "sale_obj" \in DOMAIN loc[p] /\ loc[p].i = 2
        /\ \E k \in DOMAIN sales : sales[k].id = loc[p].sale_obj.id
        /\ pc[q] = "done" /\ req[q].op = "create_sale" /\ outcome[q] = Ok
        /\ IndexOf(products, 1) # 0 /\ IndexOf(products, 2) # 0
        /\ TimesSold(products, 1) = LedgerQuantity(1)
        /\ TimesSold(products, 2) < LedgerQuantity(2)

\* the number of stored users with this email
UsersWith(email) == Cardinality({i \in DOMAIN users : users[i].email = email})

\* C20 as stated: whatever the interleaving of the seed requests, the
\* catalog never holds more than one copy of the demo products and the
\* users never more than one admin@pos.com and one cashier@pos.com, and
\* when no seed is in flight the catalog is empty or holds exactly one copy
\* with exactly one of each user.
C20_OneSeedInserts ==
    /\ Len(products) <= Len(DemoProducts)
    /\ UsersWith("admin@pos.com") <= 1
    /\ UsersWith("cashier@pos.com") <= 1
    /\ ((\A p \in Procs : Ready(p)) /\ products # <<>>)
        => /\ Len(products) = Len(DemoProducts)
           /\ UsersWith("admin@pos.com") = 1
           /\ UsersWith("cashier@pos.com") = 1

====
